---------------------------- MODULE Spec2Model ----------------------------
(***************************************************************************)
(* Model of the SevDesk -> Actual Budget synchronisation engine:           *)
(* the local SQLite state (voucher cache, position cache, transaction      *)
(* mappings, failed vouchers, category mappings), the classifier           *)
(* (VoucherValidator / InvoiceValidator), the ledger import with           *)
(* deduplication (ActualBudgetClient.import_transactions), sync_vouchers,  *)
(* sync_from_cache, the reconciliation pass and the reset scripts.         *)
(*                                                                         *)
(* Conventions.                                                            *)
(*  - Timestamps ('update', sevdesk_update_timestamp) are ISO strings the  *)
(*    code compares lexicographically; they are modelled as naturals,      *)
(*    0 standing for the NULL / missing timestamp (falsy in Python).       *)
(*  - Dates are day numbers of 2025 (1 = Jan 1st); DateInt models          *)
(*    strftime('%Y%m%d') and the ledger stores that integer.               *)
(*  - Amounts are integer cents; sumGross values are taken from amounts    *)
(*    for which int(float(sumGross) * 100) is exact.                       *)
(***************************************************************************)
EXTENDS Integers, Sequences, FiniteSets, TLC

(***************************************************************************)
(* Bounds of the model                                                     *)
(***************************************************************************)
MaxTime == 2
MaxTxns == 3
MaxPositions == 3

(***************************************************************************)
(* Program constants                                                       *)
(***************************************************************************)
DateWindowDays == 3
MaxGeldtransitPositions == 2

Vouchers == {1, 2}
NoCC == "none"
CostCentreIds == {"cc1", "cc2"}
NoCategory == "none"
GeldtransitTypeIds == {"40", "81"}
NoCostCenterTypeIds == {"39"}
RegularTypeId == "26"
AccountingTypeIds == GeldtransitTypeIds \cup NoCostCenterTypeIds \cup {RegularTypeId}
BookedStatus == "1000"
UnpaidStatus == "100"
NullFlag == "NULL"

Max(a, b) == IF a >= b THEN a ELSE b
SetMax(S) == CHOOSE x \in S : \A y \in S : y <= x
SetMin(S) == CHOOSE x \in S : \A y \in S : x <= y

(***************************************************************************)
(* Classifier: VoucherValidator                                            *)
(***************************************************************************)
ValidationResult(valid, vtype, reason) ==
    [is_valid |-> valid, voucher_type |-> vtype, reason |-> reason]

\* cost_centre and cost_centre.get('id')
HasCostCentre(voucher) == voucher.costCentre # NoCC

HasType(positions, typeIds) ==
    \E i \in DOMAIN positions : positions[i] \in typeIds

\* the transfer rule without its cost-centre check
GeldtransitWithoutCostCentreCheck(voucher, positions) ==
    IF Len(positions) = 0 \/ Len(positions) > MaxGeldtransitPositions
    THEN ValidationResult(FALSE, "geldtransit", "geldtransit_position_count")
    ELSE ValidationResult(TRUE, "geldtransit", "")

\* the regular rule without its lookup in the category mapping table
RegularWithoutMappingCheck(voucher, mappedCostCentres) ==
    IF ~HasCostCentre(voucher)
    THEN ValidationResult(FALSE, "regular", "missing_cost_center")
    ELSE ValidationResult(TRUE, "regular", "")

validate_geldtransit(voucher, positions) ==
    IF HasCostCentre(voucher)
    THEN ValidationResult(FALSE, "geldtransit", "geldtransit_has_cost_center")
    ELSE IF Len(positions) = 0 \/ Len(positions) > MaxGeldtransitPositions
         THEN ValidationResult(FALSE, "geldtransit", "geldtransit_position_count")
         ELSE ValidationResult(TRUE, "geldtransit", "")

validate_regular_voucher(voucher, mappedCostCentres) ==
    IF ~HasCostCentre(voucher)
    THEN ValidationResult(FALSE, "regular", "missing_cost_center")
    ELSE IF voucher.costCentre \notin mappedCostCentres
         THEN ValidationResult(FALSE, "regular", "cost_center_not_mapped")
         ELSE ValidationResult(TRUE, "regular", "")

\* the validator without its leading check for an empty position list
ValidateWithoutPositionCheck(voucher, positions, mappedCostCentres) ==
    IF HasType(positions, GeldtransitTypeIds)
    THEN validate_geldtransit(voucher, positions)
    ELSE IF HasType(positions, NoCostCenterTypeIds)
         THEN ValidationResult(TRUE, "no_cost_center_required", "")
         ELSE validate_regular_voucher(voucher, mappedCostCentres)

validate_voucher(voucher, positions, mappedCostCentres) ==
    IF Len(positions) = 0
    THEN ValidationResult(FALSE, "", "no_positions")
    ELSE IF HasType(positions, GeldtransitTypeIds)
         THEN validate_geldtransit(voucher, positions)
         ELSE IF HasType(positions, NoCostCenterTypeIds)
              THEN ValidationResult(TRUE, "no_cost_center_required", "")
              ELSE validate_regular_voucher(voucher, mappedCostCentres)

(***************************************************************************)
(* Classifier: InvoiceValidator.  An invoice position carries its own      *)
(* cost centre (or NoCC).                                                  *)
(***************************************************************************)
PositionCostCentres(positions) ==
    {positions[i] : i \in DOMAIN positions} \ {NoCC}

validate_invoice(invoice, positions, mappedCostCentres) ==
    IF Len(positions) = 0
    THEN ValidationResult(FALSE, "invoice", "no_positions")
    ELSE LET pcc == PositionCostCentres(positions)
             cc  == IF HasCostCentre(invoice) THEN invoice.costCentre
                    ELSE IF Cardinality(pcc) = 1 THEN CHOOSE c \in pcc : TRUE
                    ELSE NoCC
         IN IF ~HasCostCentre(invoice) /\ Cardinality(pcc) > 1
            THEN ValidationResult(FALSE, "invoice", "multiple_cost_centers")
            ELSE IF cc = NoCC
                 THEN ValidationResult(FALSE, "invoice", "no_cost_center")
                 ELSE IF cc \notin mappedCostCentres
                      THEN ValidationResult(FALSE, "invoice", "cost_center_not_mapped")
                      ELSE ValidationResult(TRUE, "invoice", "")

(***************************************************************************)
(* Ledger (Actual Budget) and ActualBudgetClient.import_transactions       *)
(***************************************************************************)
TargetAccount == "sevdesk"
OtherAccount == "other"
NoId == <<>>

\* strftime('%Y%m%d') of a day number of 2025 (January and February)
DateInt(day) ==
    IF day <= 31 THEN 20250100 + day ELSE 20250200 + (day - 31)

\* f"sevdesk_voucher_{voucher_id}"
ImportedId(v) == <<"sevdesk_voucher", v>>

Transaction(acct, dateInt, amount, fid, cat) ==
    [acct |-> acct, date |-> dateInt, amount |-> amount,
     financial_id |-> fid, category |-> cat, tombstone |-> FALSE]

\* an existing-ids query that finds nothing
NoExistingIds(ldg, account_id, transactions) == {}

\* SELECT financial_id ... WHERE acct = :a AND financial_id IN (:ids) AND tombstone = 0
ExistingImportedIds(ldg, account_id, transactions) ==
    LET imported_ids == {transactions[i].imported_id : i \in DOMAIN transactions} \ {NoId}
    IN {ldg[i].financial_id : i \in {j \in DOMAIN ldg :
            /\ ldg[j].acct = account_id
            /\ ldg[j].financial_id \in imported_ids
            /\ ~ldg[j].tombstone}}

\* the window taken on the stored integers instead of on the calendar
SimilarTxnsIntWindow(ldg, account_id, cand) ==
    {i \in DOMAIN ldg :
        /\ ldg[i].acct = account_id
        /\ ldg[i].amount = cand.amount
        /\ ldg[i].date >= DateInt(cand.date) - DateWindowDays
        /\ ldg[i].date <= DateInt(cand.date) + DateWindowDays
        /\ ~ldg[i].tombstone}

\* SELECT ... WHERE acct, amount ==, date BETWEEN window, tombstone = 0
SimilarTxns(ldg, account_id, cand) ==
    {i \in DOMAIN ldg :
        /\ ldg[i].acct = account_id
        /\ ldg[i].amount = cand.amount
        /\ ldg[i].date >= DateInt(cand.date - DateWindowDays)
        /\ ldg[i].date <= DateInt(cand.date + DateWindowDays)
        /\ ~ldg[i].tombstone}

\* similar_txns[0]: the query has no ORDER BY, so the row that comes first is
\* not determined by the code; pick chooses between the lowest and highest id.
FirstSimilar(similar, pick) ==
    IF pick = "lo" THEN SetMin(similar) ELSE SetMax(similar)

\* a dedup check that never recognises an external id
NeverDuplicate(st, cand) == FALSE

\* if imported_id and imported_id in existing_imported_ids
IsDuplicate(st, cand) ==
    cand.imported_id # NoId /\ cand.imported_id \in st.existing

ImportStep(st, cand, account_id, pick) ==
    IF IsDuplicate(st, cand)
    THEN [st EXCEPT !.skipped = Append(@, cand.imported_id)]
    ELSE LET similar == SimilarTxns(st.ledger, account_id, cand)
             seen == IF cand.imported_id # NoId
                     THEN st.existing \cup {cand.imported_id} ELSE st.existing
         IN IF similar # {}
            THEN LET id == FirstSimilar(similar, pick)
                 IN [st EXCEPT
                       !.ledger[id].financial_id =
                           IF cand.imported_id # NoId THEN cand.imported_id ELSE @,
                       !.ledger[id].category = cand.category_id,
                       !.updated = Append(@, id),
                       !.existing = seen]
            ELSE [st EXCEPT
                    !.ledger = Append(@, Transaction(account_id, DateInt(cand.date),
                                  cand.amount, cand.imported_id, cand.category_id)),
                    !.added = Append(@, Len(st.ledger) + 1),
                    !.existing = seen]

RECURSIVE ImportLoop(_, _, _, _)
ImportLoop(st, transactions, account_id, pick) ==
    IF transactions = <<>> THEN st
    ELSE ImportLoop(ImportStep(st, Head(transactions), account_id, pick),
                    Tail(transactions), account_id, pick)

import_transactions(ldg, account_id, transactions, pick) ==
    LET st0 == [ledger |-> ldg,
                existing |-> ExistingImportedIds(ldg, account_id, transactions),
                added |-> <<>>, updated |-> <<>>, skipped |-> <<>>]
        st == ImportLoop(st0, transactions, account_id, pick)
    IN [ledger |-> st.ledger, added |-> st.added,
        updated |-> st.updated, skipped |-> st.skipped]

\* import_transactions when handling the candidate at position bad raises
\* (bad = 0: none does).  The loop has no try/except: the exception leaves the
\* function before flush and commit, so what the session held is dropped and
\* no result is returned.
import_transactions_raising(ldg, account_id, transactions, pick, bad) ==
    IF bad = 0
    THEN [raised |-> FALSE, attempted |-> Len(transactions), dropped |-> ldg,
          result |-> import_transactions(ldg, account_id, transactions, pick)]
    ELSE LET st0 == [ledger |-> ldg,
                     existing |-> ExistingImportedIds(ldg, account_id, transactions),
                     added |-> <<>>, updated |-> <<>>, skipped |-> <<>>]
             st == ImportLoop(st0, SubSeq(transactions, 1, bad - 1), account_id, pick)
         IN [raised |-> TRUE, attempted |-> bad, dropped |-> st.ledger,
             result |-> [ledger |-> ldg, added |-> <<>>, updated |-> <<>>,
                         skipped |-> <<>>]]

\* UPDATE transactions SET tombstone = 1 WHERE id = :id (only when a live row exists)
delete_transaction(ldg, id) ==
    IF id \in DOMAIN ldg /\ ~ldg[id].tombstone
    THEN [ledger |-> [ldg EXCEPT ![id].tombstone = TRUE], deleted |-> TRUE]
    ELSE [ledger |-> ldg, deleted |-> FALSE]

(***************************************************************************)
(* Local SQLite database (src/storage/database.py)                         *)
(***************************************************************************)
\* sync_vouchers keys its rows f"voucher_{id}", sync_from_cache uses str(id)
VoucherKey(v) == <<"voucher_", v>>
BareKey(v) == <<"", v>>

TxnRef(id) == <<"txn", id>>
ReasonRef(reason) == <<"reason", reason>>
UnknownRef(v) == <<"unknown", v>>

MappingRow(key, actual_id, ts, ignored) ==
    [sevdesk_id |-> key, actual_id |-> actual_id,
     sevdesk_update_timestamp |-> ts, ignored |-> ignored]

\* plain INSERT: keeps whatever row the key already has
InsertRow(rows, row) == rows \cup {row}

\* INSERT OR REPLACE on the primary key sevdesk_id
InsertOrReplace(rows, row) ==
    {m \in rows : m.sevdesk_id # row.sevdesk_id} \cup {row}

save_transaction_mapping(rows, key, actual_id, ts) ==
    InsertOrReplace(rows, MappingRow(key, actual_id, ts, FALSE))

get_transaction_mapping(rows, key) == {m \in rows : m.sevdesk_id = key}

delete_transaction_mapping(rows, key) == {m \in rows : m.sevdesk_id # key}

mark_voucher_ignored(rows, key, reason) ==
    InsertOrReplace(rows, MappingRow(key, ReasonRef(reason), 0, TRUE))

is_voucher_ignored(rows, key) ==
    \E m \in rows : m.sevdesk_id = key /\ m.ignored

save_failed_voucher(failed, v) == failed \cup {v}

\* A SevDesk voucher as returned by the API (and as stored in voucher_data)
Voucher(exists, status, update, cc, positions, day, gross, cd) ==
    [exists |-> exists, status |-> status, update |-> update, costCentre |-> cc,
     positions |-> positions, voucherDate |-> day, sumGross |-> gross,
     creditDebit |-> cd]

NoVoucher == Voucher(FALSE, UnpaidStatus, 0, NoCC, <<>>, 0, 0, "D")

NoRow == [cached |-> FALSE, update_timestamp |-> 0, is_valid |-> NullFlag,
          edited |-> FALSE, voucher_data |-> NoVoucher]

\* the cached JSON does not hold the positions (they live in their own table)
CacheRow(voucher) ==
    [cached |-> TRUE, update_timestamp |-> voucher.update, is_valid |-> NullFlag,
     edited |-> FALSE, voucher_data |-> [voucher EXCEPT !.positions = <<>>]]

RECURSIVE save_vouchers_to_cache_batch(_, _, _)
save_vouchers_to_cache_batch(cache, vouchers, src) ==
    IF vouchers = <<>> THEN cache
    ELSE save_vouchers_to_cache_batch(
             [cache EXCEPT ![Head(vouchers)] = CacheRow(src[Head(vouchers)])],
             Tail(vouchers), src)

\* rows are keyed by position id: a position keeps its id when edited, so the
\* fetched positions overwrite their slots and rows of removed positions stay
SavePositions(old, new) ==
    IF Len(new) >= Len(old) THEN new
    ELSE new \o SubSeq(old, Len(new) + 1, Len(old))

RECURSIVE save_positions_to_cache_batch(_, _, _)
save_positions_to_cache_batch(pcache, vouchers, src) ==
    IF vouchers = <<>> THEN pcache
    ELSE save_positions_to_cache_batch(
             [pcache EXCEPT ![Head(vouchers)] =
                  SavePositions(@, src[Head(vouchers)].positions)],
             Tail(vouchers), src)

has_cache(cache) == \E v \in Vouchers : cache[v].cached

\* SELECT MAX(update_timestamp) FROM voucher_cache (0 when the result is NULL)
get_max_update_timestamp(cache) ==
    SetMax({cache[v].update_timestamp : v \in {w \in Vouchers : cache[w].cached}} \cup {0})

mark_vouchers_as_edited(cache, ids) ==
    [v \in Vouchers |-> IF v \in ids /\ cache[v].cached
                        THEN [cache[v] EXCEPT !.edited = TRUE] ELSE cache[v]]

get_edited_voucher_ids(cache) == {v \in Vouchers : cache[v].cached /\ cache[v].edited}

\* UPDATE voucher_cache SET is_valid = ? WHERE id = ?
mark_voucher_validation(cache, v, valid) ==
    IF cache[v].cached
    THEN [cache EXCEPT ![v].is_valid = IF valid THEN "1" ELSE "0"]
    ELSE cache

get_invalid_voucher_ids(cache) ==
    {v \in Vouchers : cache[v].cached /\ cache[v].is_valid = "0"}

RECURSIVE SortedSeq(_)
SortedSeq(S) ==
    IF S = {} THEN <<>> ELSE <<SetMin(S)>> \o SortedSeq(S \ {SetMin(S)})

SeqSet(seq) == {seq[i] : i \in DOMAIN seq}

(***************************************************************************)
(* SevDesk client (src/api/sevdesk.py)                                     *)
(***************************************************************************)
\* get_vouchers(status=1000): the booked vouchers, in id order
get_vouchers(src) ==
    SortedSeq({v \in Vouchers : src[v].exists /\ src[v].status = BookedStatus})

\* get_voucher(id): the voucher whatever its status, None when it is gone
get_voucher_found(src, v) == src[v].exists

(***************************************************************************)
(* sync_vouchers (src/sync/vouchers.py)                                    *)
(***************************************************************************)
NewerThan(src, vouchers, ts) ==
    SelectSeq(vouchers, LAMBDA v : src[v].update > ts)

Refetched(src, ids, fetch_errors) ==
    SelectSeq(ids, LAMBDA v : v \notin fetch_errors /\ get_voucher_found(src, v))

\* the delta planner consults the edited flag as well
SelectVouchersWithEdited(src, cache, full_sync, fetch_errors) ==
    IF has_cache(cache) /\ ~full_sync
    THEN LET max_ts == get_max_update_timestamp(cache)
             listed == get_vouchers(src)
             updated == IF max_ts # 0 THEN NewerThan(src, listed, max_ts) ELSE listed
         IN updated \o Refetched(src,
                SortedSeq(get_invalid_voucher_ids(cache) \cup get_edited_voucher_ids(cache)),
                fetch_errors)
    ELSE get_vouchers(src)

\* an incremental selection that does not re-fetch the invalid vouchers
SelectUpdatedOnly(src, cache, full_sync, fetch_errors) ==
    IF has_cache(cache) /\ ~full_sync
    THEN LET max_ts == get_max_update_timestamp(cache)
             listed == get_vouchers(src)
         IN IF max_ts # 0 THEN NewerThan(src, listed, max_ts) ELSE listed
    ELSE get_vouchers(src)

\* lines 48-109: which vouchers this run processes
SelectVouchers(src, cache, full_sync, fetch_errors) ==
    IF has_cache(cache) /\ ~full_sync
    THEN LET max_ts == get_max_update_timestamp(cache)
             listed == get_vouchers(src)
             updated == IF max_ts # 0 THEN NewerThan(src, listed, max_ts) ELSE listed
         IN updated \o Refetched(src, SortedSeq(get_invalid_voucher_ids(cache)),
                                 fetch_errors)
    ELSE get_vouchers(src)

\* a comparison that does not require a stored timestamp
WasModifiedWithoutStored(voucher, row) ==
    /\ voucher.update # 0
    /\ voucher.update > row.sevdesk_update_timestamp

\* current_update and stored_update and current_update > stored_update
WasModified(voucher, row) ==
    /\ voucher.update # 0
    /\ row.sevdesk_update_timestamp # 0
    /\ voucher.update > row.sevdesk_update_timestamp

\* lines 186-256: what the run decides for a voucher it classifies
Classify(voucher, positions, mappedCostCentres) ==
    IF Len(positions) > 0 /\ HasType(positions, GeldtransitTypeIds)
    THEN "ignored"
    ELSE IF /\ Len(positions) > 0
            /\ HasType(positions, NoCostCenterTypeIds)
            /\ ~HasCostCentre(voucher)
         THEN "invalid_pass_through"
         ELSE IF validate_voucher(voucher, positions, mappedCostCentres).is_valid
              THEN "valid" ELSE "invalid"

\* one iteration of the validation loop, lines 161-281
ValidateStep(st, v, src, dry_run) ==
    LET key == VoucherKey(v)
        voucher == src[v]
        existing == get_transaction_mapping(st.mappings, key)
        row == CHOOSE m \in existing : TRUE
        class == Classify(voucher, voucher.positions, st.category_mappings)
        marked == IF dry_run THEN st
                  ELSE [st EXCEPT !.cache = mark_voucher_validation(@, v, class = "valid")]
    IN IF existing # {} /\ ~WasModified(voucher, row)
       THEN [st EXCEPT !.already_synced = @ + 1]
       ELSE IF class = "ignored"
       THEN [st EXCEPT
               !.mappings = IF ~is_voucher_ignored(@, key) /\ ~dry_run
                            THEN mark_voucher_ignored(@, key, "Geldtransit") ELSE @,
               !.ignored_count = @ + 1]
       ELSE IF class = "invalid_pass_through"
       THEN [marked EXCEPT
               !.failed = IF dry_run THEN @ ELSE save_failed_voucher(@, v),
               !.saves = IF dry_run THEN @ ELSE Append(@, v)]
       ELSE IF class = "valid"
       THEN IF existing # {}
            THEN [marked EXCEPT !.modified = Append(@, <<v, row.actual_id>>)]
            ELSE [marked EXCEPT !.valid = Append(@, v)]
       ELSE [marked EXCEPT
               !.errors = @ + 1,
               !.failed = IF dry_run THEN @ ELSE save_failed_voucher(@, v),
               !.saves = IF dry_run THEN @ ELSE Append(@, v)]

RECURSIVE ValidateLoop(_, _, _, _)
ValidateLoop(st, vouchers, src, dry_run) ==
    IF vouchers = <<>> THEN st
    ELSE ValidateLoop(ValidateStep(st, Head(vouchers), src, dry_run),
                      Tail(vouchers), src, dry_run)

\* int(float(sumGross) * 100), negated for credit vouchers
AmountCents(voucher) ==
    IF voucher.creditDebit = "C" THEN 0 - voucher.sumGross ELSE voucher.sumGross

\* category_mappings.get(cc_id) if cc_id else None
CategoryFor(voucher, mappedCostCentres) ==
    IF HasCostCentre(voucher) /\ voucher.costCentre \in mappedCostCentres
    THEN voucher.costCentre ELSE NoCategory

Candidate(v, voucher, mappedCostCentres) ==
    [date |-> voucher.voucherDate, amount |-> AmountCents(voucher),
     category_id |-> CategoryFor(voucher, mappedCostCentres),
     imported_id |-> ImportedId(v)]

Candidates(vs, data, mappedCostCentres) ==
    [i \in DOMAIN vs |-> Candidate(vs[i], data[vs[i]], mappedCostCentres)]

\* lines 457-473: a mapping for every added/updated transaction whose
\* financial_id is one of this batch's imported ids
RECURSIVE SaveImportMappings(_, _, _, _, _)
SaveImportMappings(rows, txn_ids, ldg, valid, src) ==
    IF txn_ids = <<>> THEN rows
    ELSE LET id == Head(txn_ids)
             fid == ldg[id].financial_id
             hit == fid # NoId /\ fid \in {ImportedId(v) : v \in SeqSet(valid)}
         IN SaveImportMappings(
                IF hit
                THEN save_transaction_mapping(rows, VoucherKey(fid[2]), TxnRef(id),
                                              src[fid[2]].update)
                ELSE rows,
                Tail(txn_ids), ldg, valid, src)

\* update_transaction: UPDATE ... WHERE id = :id AND tombstone = 0
update_transaction(ldg, id, voucher, mappedCostCentres) ==
    IF id \in DOMAIN ldg /\ ~ldg[id].tombstone
    THEN [ldg EXCEPT ![id].date = DateInt(voucher.voucherDate),
                     ![id].amount = AmountCents(voucher),
                     ![id].category = CategoryFor(voucher, mappedCostCentres)]
    ELSE ldg

\* update_transactions_batch: bulk_update_mappings by primary key
RECURSIVE update_transactions_batch(_, _, _, _)
update_transactions_batch(ldg, modified, src, mappedCostCentres) ==
    IF modified = <<>> THEN ldg
    ELSE LET v == Head(modified)[1]
             id == Head(modified)[2][2]
         IN update_transactions_batch(
                [ldg EXCEPT ![id].date = DateInt(src[v].voucherDate),
                            ![id].amount = AmountCents(src[v]),
                            ![id].category = CategoryFor(src[v], mappedCostCentres)],
                Tail(modified), src, mappedCostCentres)

RECURSIVE SaveModifiedMappings(_, _, _)
SaveModifiedMappings(rows, modified, src) ==
    IF modified = <<>> THEN rows
    ELSE SaveModifiedMappings(
             save_transaction_mapping(rows, VoucherKey(Head(modified)[1]),
                                      Head(modified)[2], src[Head(modified)[1]].update),
             Tail(modified), src)

\* fallback of lines 546-586: one update_transaction per modified voucher
RECURSIVE UpdateOneByOne(_, _, _, _)
UpdateOneByOne(ldg, modified, src, mappedCostCentres) ==
    IF modified = <<>> THEN ldg
    ELSE UpdateOneByOne(
             update_transaction(ldg, Head(modified)[2][2], src[Head(modified)[1]],
                                mappedCostCentres),
             Tail(modified), src, mappedCostCentres)

\* the statistics a run returns; a run that raises returns none
Stats(synced, skipped) == [returned |-> TRUE, synced |-> synced, skipped |-> skipped]

NoStats == [returned |-> FALSE, synced |-> 0, skipped |-> 0]

NoImport(ldg) == [ledger |-> ldg, added |-> <<>>, updated |-> <<>>, skipped |-> <<>>]

\* sync_vouchers on the state S once the vouchers are selected.  fail names the step at which
\* the run dies: "positions" (get_voucher_positions_batch raises after the
\* cache upsert), "ledger" (the ledger session cannot be opened), "mappings"
\* (the process stops after import_transactions committed and before the
\* mapping rows are saved), "batch" (update_transactions_batch raises and the
\* one-by-one fallback succeeds), "batch_all" (the fallback raises as well).
SyncSelected(S, vouchers, dry_run, fail, pick) ==
    LET src == S.sevdesk
        R0 == [S EXCEPT !.selected = SeqSet(vouchers)]
        R1 == [R0 EXCEPT !.cache = save_vouchers_to_cache_batch(@, vouchers, src)]
        R2 == [R1 EXCEPT !.pcache = save_positions_to_cache_batch(@, vouchers, src)]
        lp == ValidateLoop(
                  [cache |-> R2.cache, mappings |-> R2.mappings, failed |-> R2.failed,
                   category_mappings |-> S.category_mappings,
                   valid |-> <<>>, modified |-> <<>>,
                   already_synced |-> 0, ignored_count |-> 0, errors |-> 0,
                   saves |-> <<>>],
                  vouchers, src, dry_run)
        R3 == [R2 EXCEPT !.cache = lp.cache, !.mappings = lp.mappings,
                         !.failed = lp.failed, !.failed_saves = lp.saves,
                         !.items_processed = Len(vouchers),
                         !.failed_count = lp.errors,
                         !.ignored_count = lp.ignored_count,
                         !.valid_vouchers = lp.valid,
                         !.modified_vouchers = lp.modified]
        result == IF lp.valid # <<>>
                  THEN import_transactions(S.ledger, TargetAccount,
                           Candidates(lp.valid, src, S.category_mappings), pick)
                  ELSE NoImport(S.ledger)
        rows1 == SaveImportMappings(R3.mappings, result.added \o result.updated,
                                    result.ledger, lp.valid, src)
        ldg2 == IF fail = "batch_all" THEN result.ledger
                ELSE IF fail = "batch"
                THEN UpdateOneByOne(result.ledger, lp.modified, src, S.category_mappings)
                ELSE update_transactions_batch(result.ledger, lp.modified, src,
                                               S.category_mappings)
        rows2 == IF fail = "batch_all" THEN rows1
                 ELSE SaveModifiedMappings(rows1, lp.modified, src)
        created == Len(result.added) + Len(result.updated)
        updated == IF fail = "batch_all" THEN 0 ELSE Len(lp.modified)
    IN IF vouchers = <<>>
       THEN [R0 EXCEPT !.outcome = "nothing", !.stats = Stats(0, 0), !.run_status = "none"]
       ELSE IF fail = "positions"
       THEN [R1 EXCEPT !.outcome = "failed", !.stats = NoStats, !.run_status = "running"]
       ELSE IF dry_run
       THEN [R3 EXCEPT !.outcome = "dry_run", !.stats = Stats(0, lp.already_synced),
                       !.validated = Len(lp.valid),
                       !.run_status = "dry_run"]
       ELSE IF lp.valid = <<>> /\ lp.modified = <<>>
       THEN [R3 EXCEPT !.outcome = "no_work", !.stats = Stats(0, lp.already_synced),
                       !.run_status = "running"]
       ELSE IF fail = "ledger"
       THEN [R3 EXCEPT !.outcome = "failed", !.stats = NoStats, !.run_status = "running"]
       ELSE IF fail = "mappings" /\ lp.valid # <<>>
            THEN [R3 EXCEPT !.ledger = result.ledger, !.outcome = "failed",
                            !.import_result = result,
                            !.stats = NoStats, !.run_status = "running"]
       ELSE [R3 EXCEPT !.ledger = ldg2, !.mappings = rows2,
                       !.import_result = result,
                       !.validated = Len(lp.valid) + Len(lp.modified),
                       !.outcome = IF fail \in {"batch", "batch_all"} /\ lp.modified # <<>>
                                   THEN "completed_with_errors" ELSE "completed",
                       !.stats = Stats(created + updated, lp.already_synced),
                       !.failed_count = lp.errors + (Len(lp.valid) - created)
                                           + (Len(lp.modified) - updated),
                       !.run_status = "completed"]

\* lines 44-109 select the vouchers, the rest of sync_vouchers processes them
sync_vouchers(S, full_sync, dry_run, fail, fetch_errors, pick) ==
    SyncSelected(S, SelectVouchers(S.sevdesk, S.cache, full_sync, fetch_errors),
                 dry_run, fail, pick)

(***************************************************************************)
(* sync_categories (src/sync/categories.py): every SevDesk cost centre     *)
(* gets a category mapping                                                 *)
(***************************************************************************)
SourceCostCentres == {"cc1"}

sync_categories(mapped) == mapped \cup SourceCostCentres

(***************************************************************************)
(* sync_from_cache.py                                                      *)
(***************************************************************************)
IgnoreReason(positions) ==
    IF HasType(positions, NoCostCenterTypeIds)
    THEN "Durchlaufende Posten" ELSE "Geldtransit"

CacheValidateStep(st, v, pcache) ==
    LET voucher == st.cache[v].voucher_data
        positions == pcache[v]
    IN IF Len(positions) > 0
          /\ HasType(positions, NoCostCenterTypeIds \cup GeldtransitTypeIds)
       THEN [st EXCEPT !.mappings =
                IF ~is_voucher_ignored(@, VoucherKey(v))
                THEN mark_voucher_ignored(@, VoucherKey(v), IgnoreReason(positions))
                ELSE @]
       ELSE LET result == validate_voucher(voucher, positions, st.category_mappings)
                st1 == [st EXCEPT !.cache = mark_voucher_validation(@, v, result.is_valid)]
            IN IF result.is_valid THEN [st1 EXCEPT !.valid = Append(@, v)] ELSE st1

RECURSIVE CacheValidateLoop(_, _, _)
CacheValidateLoop(st, vouchers, pcache) ==
    IF vouchers = <<>> THEN st
    ELSE CacheValidateLoop(CacheValidateStep(st, Head(vouchers), pcache),
                           Tail(vouchers), pcache)

\* lines 216-226: a row under the bare id for every candidate of the batch
RECURSIVE SaveCacheMappings(_, _, _)
SaveCacheMappings(rows, todo, cache) ==
    IF todo = <<>> THEN rows
    ELSE SaveCacheMappings(
             save_transaction_mapping(rows, BareKey(Head(todo)), UnknownRef(Head(todo)),
                                      cache[Head(todo)].voucher_data.update),
             Tail(todo), cache)

sync_from_cache(S, pick) ==
    LET cats == sync_categories(S.category_mappings)
        R0 == [S EXCEPT !.category_mappings = cats]
        vouchers == SortedSeq({v \in Vouchers : S.cache[v].cached})
        lp == CacheValidateLoop(
                  [cache |-> S.cache, mappings |-> S.mappings,
                   category_mappings |-> cats, valid |-> <<>>],
                  vouchers, S.pcache)
        R1 == [R0 EXCEPT !.cache = lp.cache, !.mappings = lp.mappings,
                         !.selected = SeqSet(vouchers)]
        todo == SelectSeq(lp.valid,
                    LAMBDA v : get_transaction_mapping(lp.mappings, BareKey(v)) = {})
        data == [v \in Vouchers |-> S.cache[v].voucher_data]
        result == import_transactions(S.ledger, TargetAccount,
                                      Candidates(todo, data, cats), pick)
    IN IF vouchers = <<>> THEN [R0 EXCEPT !.outcome = "no_cache"]
       ELSE IF S.account_mappings = {} THEN [R0 EXCEPT !.outcome = "no_accounts"]
       ELSE IF lp.valid = <<>> THEN [R1 EXCEPT !.outcome = "no_work"]
       ELSE IF todo = <<>> THEN [R1 EXCEPT !.outcome = "completed"]
       ELSE [R1 EXCEPT !.ledger = result.ledger,
                       !.mappings = SaveCacheMappings(lp.mappings, todo, S.cache),
                       !.outcome = "completed"]

(***************************************************************************)
(* reconcile_transactions (src/sync/reconciliation.py) and                 *)
(* scripts/reconcile_vouchers.py                                           *)
(***************************************************************************)
\* sevdesk_id.replace('voucher_', '')
VoucherOf(key) == key[2]

\* mappings reported not found or not booked
ToRemove(rows, src, status_errors) ==
    {m \in rows :
        /\ VoucherOf(m.sevdesk_id) \notin status_errors
        /\ \/ ~get_voucher_found(src, VoucherOf(m.sevdesk_id))
           \/ src[VoucherOf(m.sevdesk_id)].status # BookedStatus}

\* the mappings whose status check raised (one entry in 'errors' each)
StatusErrors(rows, status_errors) ==
    {m \in rows : VoucherOf(m.sevdesk_id) \in status_errors}

\* the returned dict {'checked', 'deleted', 'errors'}
ReconcileStats(checked, deleted, errors) ==
    [checked |-> checked, deleted |-> deleted, errors |-> errors]

\* a delete loop that keeps the mapping row, and counts an error, when the
\* ledger reports that there was nothing to delete
RemoveOrphansStrict(S, to_remove, status_errors, delete_errors) ==
    LET gone(m) == \A i \in DOMAIN S.ledger :
                      m.actual_id = TxnRef(i) => S.ledger[i].tombstone
        doomed == {m \in to_remove :
                      VoucherOf(m.sevdesk_id) \notin delete_errors /\ ~gone(m)}
        named(i) == \E m \in doomed : m.actual_id = TxnRef(i)
    IN [S EXCEPT
          !.ledger = [i \in DOMAIN S.ledger |->
                         IF named(i) THEN delete_transaction(S.ledger, i).ledger[i]
                         ELSE S.ledger[i]],
          !.mappings = {m \in S.mappings :
                           \A d \in doomed : m.sevdesk_id # d.sevdesk_id},
          !.reconcile = ReconcileStats(
                            Cardinality(S.mappings),
                            Cardinality({i \in DOMAIN S.ledger : named(i)}),
                            Cardinality(StatusErrors(S.mappings, status_errors))
                               + Cardinality(to_remove \ doomed)),
          !.outcome = "completed"]

\* lines 121-148: delete the transaction, then the mapping row; a delete that
\* raises keeps both and adds an error; delete_transaction returning False
\* (nothing live under that id) still removes the mapping row
RemoveOrphans(S, to_remove, status_errors, delete_errors) ==
    LET doomed == {m \in to_remove : VoucherOf(m.sevdesk_id) \notin delete_errors}
        named(i) == \E m \in doomed : m.actual_id = TxnRef(i)
    IN [S EXCEPT
          !.ledger = [i \in DOMAIN S.ledger |->
                         IF named(i) THEN delete_transaction(S.ledger, i).ledger[i]
                         ELSE S.ledger[i]],
          !.mappings = {m \in S.mappings :
                           \A d \in doomed : m.sevdesk_id # d.sevdesk_id},
          !.reconcile = ReconcileStats(
                            Cardinality(S.mappings),
                            Cardinality({i \in DOMAIN S.ledger :
                                            named(i) /\ ~S.ledger[i].tombstone}),
                            Cardinality(StatusErrors(S.mappings, status_errors))
                               + Cardinality(to_remove \ doomed)),
          !.outcome = "completed"]

\* a reconciliation that deletes whether or not it is a dry run
ReconcileIgnoringDryRun(S, dry_run, status_errors, delete_errors) ==
    RemoveOrphans(S, ToRemove(S.mappings, S.sevdesk, status_errors),
                  status_errors, delete_errors)

reconcile_transactions(S, dry_run, status_errors, delete_errors) ==
    LET to_remove == ToRemove(S.mappings, S.sevdesk, status_errors)
    IN IF dry_run \/ to_remove = {}
       THEN [S EXCEPT
               !.reconcile = ReconcileStats(
                                 Cardinality(S.mappings), 0,
                                 Cardinality(StatusErrors(S.mappings, status_errors))),
               !.outcome = "completed"]
       ELSE RemoveOrphans(S, to_remove, status_errors, delete_errors)

(***************************************************************************)
(* State                                                                   *)
(***************************************************************************)
VARIABLES
    sevdesk,               \* the vouchers held by SevDesk
    now,                   \* latest update timestamp handed out by SevDesk
    voucher_cache,         \* table voucher_cache
    position_cache,        \* table voucher_position_cache
    transaction_mappings,  \* table transaction_mappings
    failed_vouchers,       \* table failed_vouchers
    category_mappings,     \* cost centres that have a category mapping
    account_mappings,      \* table account_mappings
    ledger,                \* transactions of the Actual Budget file
    imp,                   \* the last call of import_transactions
    probe                  \* the last call of a validator

vars == <<sevdesk, now, voucher_cache, position_cache, transaction_mappings,
          failed_vouchers, category_mappings, account_mappings, ledger,
          imp, probe>>

NoImp == [done |-> FALSE, pre |-> <<>>, cands |-> <<>>, pick |-> "lo",
          result |-> NoImport(<<>>)]

NoProbe == [kind |-> "none", doc |-> NoVoucher, positions |-> <<>>, mapped |-> {},
            done |-> FALSE, class |-> "", result |-> ValidationResult(FALSE, "", "")]

\* the program state the operations work on; stats is the dictionary a run
\* returns and run_status the status of the sync_history row it leaves
State ==
    [sevdesk |-> sevdesk, cache |-> voucher_cache, pcache |-> position_cache,
     mappings |-> transaction_mappings, failed |-> failed_vouchers,
     category_mappings |-> category_mappings, account_mappings |-> account_mappings,
     ledger |-> ledger, outcome |-> "", selected |-> {},
     stats |-> NoStats, run_status |-> "none",
     failed_saves |-> <<>>, items_processed |-> 0, failed_count |-> 0,
     reconcile |-> ReconcileStats(0, 0, 0),
     ignored_count |-> 0, validated |-> 0, valid_vouchers |-> <<>>,
     modified_vouchers |-> <<>>, import_result |-> NoImport(<<>>)]

Commit(R) ==
    /\ voucher_cache' = R.cache
    /\ position_cache' = R.pcache
    /\ transaction_mappings' = R.mappings
    /\ failed_vouchers' = R.failed
    /\ category_mappings' = R.category_mappings
    /\ ledger' = R.ledger

PositionChoices == {<<>>, <<RegularTypeId>>, <<"39">>, <<"40">>}
\* voucher dates (day numbers: Jan 30th, Feb 1st, Feb 9th, Feb 3rd) and amounts
Day == [first |-> 30, near |-> 32, far |-> 40, beyond |-> 34]
Cents == [gross |-> 100, other |-> 200]

Init ==
    /\ \E day \in {Day.near, Day.far} :
          sevdesk = [v \in Vouchers |->
              Voucher(TRUE, BookedStatus, 1, "cc1", <<RegularTypeId>>,
                      IF v = 1 THEN Day.first ELSE day, Cents.gross, "C")]
    /\ now = 1
    /\ voucher_cache = [v \in Vouchers |-> NoRow]
    /\ position_cache = [v \in Vouchers |-> <<>>]
    /\ transaction_mappings = {}
    /\ failed_vouchers = {}
    /\ category_mappings = {}
    /\ account_mappings = {"bank"}
    /\ ledger = <<>>
    /\ imp = NoImp
    /\ probe = NoProbe

(***************************************************************************)
(* Operations of the program                                               *)
(***************************************************************************)
FailPoints == {"none", "positions", "ledger", "mappings", "batch", "batch_all"}
Picks == {"lo", "hi"}

SyncVouchers ==
    \E full_sync \in BOOLEAN, dry_run \in BOOLEAN, fail \in FailPoints,
       fetch_errors \in SUBSET get_invalid_voucher_ids(voucher_cache), pick \in Picks :
       /\ dry_run => fail \in {"none", "positions"}
       /\ fetch_errors # {} => has_cache(voucher_cache) /\ ~full_sync
       /\ pick = "hi" => Len(ledger) >= 1 /\ ~dry_run
       /\ \E R \in {sync_vouchers(State, full_sync, dry_run, fail, fetch_errors, pick)} :
             /\ fail # "none" => R.outcome \in {"failed", "completed_with_errors"}
             /\ Len(R.ledger) <= MaxTxns
             /\ Commit(R)
             /\ UNCHANGED <<sevdesk, now, account_mappings, imp, probe>>

SyncFromCache ==
    \E pick \in Picks :
       \E R \in {sync_from_cache(State, pick)} :
          /\ Len(R.ledger) <= MaxTxns
          /\ Commit(R)
          /\ UNCHANGED <<sevdesk, now, account_mappings, imp, probe>>

Reconcile ==
    \E dry_run \in BOOLEAN,
       status_errors \in SUBSET {VoucherOf(m.sevdesk_id) : m \in transaction_mappings} :
       \E delete_errors \in SUBSET {VoucherOf(m.sevdesk_id) :
                                     m \in ToRemove(transaction_mappings, sevdesk,
                                                    status_errors)} :
          \E R \in {reconcile_transactions(State, dry_run, status_errors, delete_errors)} :
             /\ transaction_mappings # {}
             /\ dry_run => delete_errors = {}
             /\ Commit(R)
             /\ UNCHANGED <<sevdesk, now, account_mappings, imp, probe>>

SyncCategories ==
    /\ category_mappings' = sync_categories(category_mappings)
    /\ UNCHANGED <<sevdesk, now, voucher_cache, position_cache, transaction_mappings,
                   failed_vouchers, account_mappings, ledger, imp, probe>>

\* reset_sync.py and `main.py reset`: DELETE FROM transaction_mappings
ResetMappings ==
    /\ transaction_mappings # {}
    /\ transaction_mappings' = {}
    /\ UNCHANGED <<sevdesk, now, voucher_cache, position_cache, failed_vouchers,
                   category_mappings, account_mappings, ledger, imp, probe>>

\* scripts/reset_sync.py: mappings, category mappings and failed vouchers
ResetAll ==
    /\ transaction_mappings # {} \/ category_mappings # {}
    /\ transaction_mappings' = {}
    /\ category_mappings' = {}
    /\ failed_vouchers' = {}
    /\ UNCHANGED <<sevdesk, now, voucher_cache, position_cache,
                   account_mappings, ledger, imp, probe>>

MarkEdited ==
    \E v \in {1} :
       /\ voucher_cache[v].cached /\ ~voucher_cache[v].edited
       /\ voucher_cache' = mark_vouchers_as_edited(voucher_cache, {v})
       /\ UNCHANGED <<sevdesk, now, position_cache, transaction_mappings,
                      failed_vouchers, category_mappings, account_mappings,
                      ledger, imp, probe>>

(***************************************************************************)
(* The environment: users editing SevDesk                                  *)
(***************************************************************************)
EnvUnchanged ==
    UNCHANGED <<voucher_cache, position_cache, transaction_mappings, failed_vouchers,
                category_mappings, account_mappings, ledger, imp, probe>>

\* a user changes cost centre and positions of voucher 1; SevDesk stamps it
EditVoucher ==
    \E cc \in {NoCC} \cup SourceCostCentres, ps \in PositionChoices :
       /\ now < MaxTime
       /\ sevdesk[1].exists
       /\ <<cc, ps>> # <<sevdesk[1].costCentre, sevdesk[1].positions>>
       /\ sevdesk' = [sevdesk EXCEPT ![1].costCentre = cc, ![1].positions = ps,
                                     ![1].update = now + 1]
       /\ now' = now + 1
       /\ EnvUnchanged

\* a booked voucher is reset to unpaid
UnbookVoucher ==
    \E v \in {1} :
       /\ now < MaxTime
       /\ sevdesk[v].exists /\ sevdesk[v].status = BookedStatus
       /\ sevdesk' = [sevdesk EXCEPT ![v].status = UnpaidStatus, ![v].update = now + 1]
       /\ now' = now + 1
       /\ EnvUnchanged

DeleteVoucher ==
    \E v \in {1} :
       /\ sevdesk[v].exists
       /\ sevdesk' = [sevdesk EXCEPT ![v].exists = FALSE]
       /\ UNCHANGED now
       /\ EnvUnchanged

Next ==
    \/ SyncVouchers
    \/ SyncFromCache
    \/ Reconcile
    \/ SyncCategories
    \/ ResetMappings
    \/ ResetAll
    \/ EditVoucher
    \/ UnbookVoucher
    \/ DeleteVoucher

Spec == Init /\ [][Next]_vars

(***************************************************************************)
(* The delta planner with the edited flag: mark_vouchers_as_edited is a    *)
(* database operation no command calls; it is explored on its own.         *)
(***************************************************************************)
NextDelta ==
    \/ SyncVouchers
    \/ SyncCategories
    \/ MarkEdited
    \/ EditVoucher

SpecDelta == Init /\ [][NextDelta]_vars

(***************************************************************************)
(* import_transactions on its own: arbitrary small ledgers and batches     *)
(***************************************************************************)
MaxInitTxns == 2
MaxBatch == 2

LedgerDays == {Day.first, Day.first + DateWindowDays, Day.beyond}

InitTxns ==
    {tx \in [acct : {TargetAccount, OtherAccount},
             date : {DateInt(d) : d \in LedgerDays},
             amount : {0 - Cents.gross},
             financial_id : {NoId} \cup {ImportedId(v) : v \in Vouchers},
             category : {NoCategory},
             tombstone : BOOLEAN] :
        ~(tx.acct = OtherAccount /\ tx.tombstone)}

BoundedSeqs(S, n) == UNION {[1..k -> S] : k \in 0..n}

BatchCandidates ==
    {[date |-> Day.first, amount |-> 0 - g, category_id |-> "cc1",
      imported_id |-> ImportedId(v)] : v \in Vouchers, g \in {Cents.gross, Cents.other}}

StaticSource ==
    [v \in Vouchers |->
        Voucher(TRUE, BookedStatus, 1, "cc1", <<RegularTypeId>>,
                IF v = 1 THEN Day.first ELSE Day.far, Cents.gross, "C")]

IdleRest ==
    /\ sevdesk = StaticSource
    /\ now = 1
    /\ voucher_cache = [v \in Vouchers |-> NoRow]
    /\ position_cache = [v \in Vouchers |-> <<>>]
    /\ transaction_mappings = {}
    /\ failed_vouchers = {}
    /\ category_mappings = {}
    /\ account_mappings = {"bank"}

InitImport ==
    /\ IdleRest
    /\ ledger \in BoundedSeqs(InitTxns, MaxInitTxns)
    /\ imp = NoImp
    /\ probe = NoProbe

ImportBatch ==
    \E cands \in BoundedSeqs(BatchCandidates, MaxBatch) \ {<<>>}, pick \in Picks :
       /\ Len(ledger) + Len(cands) <= MaxTxns
       /\ \E R \in {import_transactions(ledger, TargetAccount, cands, pick)} :
             /\ ledger' = R.ledger
             /\ imp' = [done |-> TRUE, pre |-> ledger, cands |-> cands,
                        pick |-> pick, result |-> R]
       /\ UNCHANGED <<sevdesk, now, voucher_cache, position_cache, transaction_mappings,
                      failed_vouchers, category_mappings, account_mappings, probe>>

NextImport == ImportBatch

SpecImport == InitImport /\ [][NextImport]_vars

\* import_transactions with a candidate whose create/update may raise
ImportBatchItemFails ==
    \E cands \in BoundedSeqs(BatchCandidates, MaxBatch) \ {<<>>}, pick \in Picks :
       \E bad \in 0..Len(cands) :
          /\ Len(ledger) + Len(cands) <= MaxTxns
          /\ \E R \in {import_transactions_raising(ledger, TargetAccount, cands, pick, bad)} :
                /\ ledger' = R.result.ledger
                /\ imp' = [done |-> TRUE, pre |-> ledger, cands |-> cands,
                           pick |-> pick, result |-> R.result, bad |-> bad,
                           raised |-> R.raised, attempted |-> R.attempted]
          /\ UNCHANGED <<sevdesk, now, voucher_cache, position_cache,
                         transaction_mappings, failed_vouchers, category_mappings,
                         account_mappings, probe>>

NextImportErr == ImportBatchItemFails

SpecImportErr == InitImport /\ [][NextImportErr]_vars

(***************************************************************************)
(* The validators on their own: arbitrary documents                        *)
(***************************************************************************)
ProbeVouchers ==
    {Voucher(TRUE, BookedStatus, 1, cc, <<>>, day, gross, "C") :
        cc \in {NoCC} \cup CostCentreIds, day \in {Day.first, Day.far},
        gross \in {Cents.gross, Cents.other}}

InitClassify ==
    /\ IdleRest
    /\ ledger = <<>>
    /\ imp = NoImp
    /\ \E kind \in {"voucher", "invoice"}, doc \in ProbeVouchers,
          mapped \in SUBSET CostCentreIds :
          \E ps \in BoundedSeqs(IF kind = "voucher" THEN AccountingTypeIds
                                ELSE {NoCC} \cup CostCentreIds, MaxPositions) :
             probe = [kind |-> kind, doc |-> doc, positions |-> ps, mapped |-> mapped,
                      done |-> FALSE, class |-> "",
                      result |-> ValidationResult(FALSE, "", "")]

ClassifyVoucher ==
    /\ probe.kind = "voucher" /\ ~probe.done
    /\ probe' = [probe EXCEPT
                   !.done = TRUE,
                   !.result = validate_voucher(probe.doc, probe.positions, probe.mapped),
                   !.class = Classify(probe.doc, probe.positions, probe.mapped)]
    /\ UNCHANGED <<sevdesk, now, voucher_cache, position_cache, transaction_mappings,
                   failed_vouchers, category_mappings, account_mappings, ledger, imp>>

ClassifyInvoice ==
    /\ probe.kind = "invoice" /\ ~probe.done
    /\ probe' = [probe EXCEPT
                   !.done = TRUE,
                   !.result = validate_invoice(probe.doc, probe.positions, probe.mapped),
                   !.class = IF validate_invoice(probe.doc, probe.positions,
                                                 probe.mapped).is_valid
                             THEN "valid" ELSE "invalid"]
    /\ UNCHANGED <<sevdesk, now, voucher_cache, position_cache, transaction_mappings,
                   failed_vouchers, category_mappings, account_mappings, ledger, imp>>

NextClassify == ClassifyVoucher \/ ClassifyInvoice

SpecClassify == InitClassify /\ [][NextClassify]_vars

(***************************************************************************)
(* Vouchers that start out as transfers or pass-through items: voucher 1   *)
(* carries a type 39 or 40 position before the first run and may be edited *)
(* afterwards                                                              *)
(***************************************************************************)
InitIgnored ==
    /\ \E cc \in {NoCC} \cup SourceCostCentres, ps \in {<<"39">>, <<"40">>} :
          sevdesk = [v \in Vouchers |->
              Voucher(TRUE, BookedStatus, 1, IF v = 1 THEN cc ELSE "cc1",
                      IF v = 1 THEN ps ELSE <<RegularTypeId>>,
                      IF v = 1 THEN Day.first ELSE Day.far, Cents.gross, "C")]
    /\ now = 1
    /\ voucher_cache = [v \in Vouchers |-> NoRow]
    /\ position_cache = [v \in Vouchers |-> <<>>]
    /\ transaction_mappings = {}
    /\ failed_vouchers = {}
    /\ category_mappings = {}
    /\ account_mappings = {"bank"}
    /\ ledger = <<>>
    /\ imp = NoImp
    /\ probe = NoProbe

NextIgnored ==
    \/ SyncVouchers
    \/ SyncFromCache
    \/ SyncCategories
    \/ EditVoucher

SpecIgnored == InitIgnored /\ [][NextIgnored]_vars

(***************************************************************************)
(* sync/categories.py in detail: cost centres with names, the categories   *)
(* of the ledger and the category_mappings rows                            *)
(***************************************************************************)
MaxCostCentres == 2
MaxInitCategories == 2

DefaultGroup == "SevDesk Categories"
IncomeGroup == "Income"
\* config.income_categories
IncomeCategories == {"Bar-Kollekten"}
CostCentreNames == {"Miete", "miete", "Bar-Kollekten"}

\* str.lower()
Lower(name) == IF name = "Miete" THEN "miete"
               ELSE IF name = "Bar-Kollekten" THEN "bar-kollekten" ELSE name

CostCentre(id, name) == [id |-> id, name |-> name]

Category(name, is_income, group_id) ==
    [name |-> name, is_income |-> is_income, group_id |-> group_id]

CategoryRef(i) == <<"cat", i>>

CategoryMapping(sevdesk_id, actual_id) ==
    [sevdesk_category_id |-> sevdesk_id, actual_category_id |-> actual_id]

\* INSERT OR REPLACE on the primary key sevdesk_category_id
save_category_mapping(rows, sevdesk_id, actual_id) ==
    {m \in rows : m.sevdesk_category_id # sevdesk_id}
       \cup {CategoryMapping(sevdesk_id, actual_id)}

get_category_mapping(rows, sevdesk_id) ==
    {m.actual_category_id : m \in {n \in rows : n.sevdesk_category_id = sevdesk_id}}

\* {c['name'].lower(): c for c in categories}: the last category of a name
\* wins; 0 when the name is absent
category_by_name(categories, name) ==
    LET hits == {i \in DOMAIN categories : Lower(categories[i].name) = Lower(name)}
    IN IF hits = {} THEN 0 ELSE CHOOSE i \in hits : \A j \in hits : j <= i

\* an iteration that looks the name up without asking for an existing mapping
CategoryStepWithoutMappingCheck(st, cc, snapshot) ==
    LET found == category_by_name(snapshot, cc.name)
        is_income == cc.name \in IncomeCategories
    IN IF found # 0
       THEN [st EXCEPT
               !.mappings = save_category_mapping(@, cc.id, CategoryRef(found)),
               !.synced = @ + 1]
       ELSE [st EXCEPT
               !.categories = Append(@, Category(cc.name, is_income,
                                  IF is_income THEN IncomeGroup ELSE DefaultGroup)),
               !.mappings = save_category_mapping(@, cc.id,
                                                  CategoryRef(Len(st.categories) + 1)),
               !.created = @ + 1]

\* one iteration of the loop over the cost centres; snapshot is the category
\* list read before the loop
CategoryStep(st, cc, snapshot) ==
    LET found == category_by_name(snapshot, cc.name)
        is_income == cc.name \in IncomeCategories
    IN IF get_category_mapping(st.mappings, cc.id) # {}
       THEN [st EXCEPT !.synced = @ + 1]
       ELSE IF found # 0
       THEN [st EXCEPT
               !.categories =
                  IF is_income /\ (~snapshot[found].is_income
                                   \/ snapshot[found].group_id # IncomeGroup)
                  THEN [@ EXCEPT ![found].is_income = TRUE,
                                 ![found].group_id = IncomeGroup]
                  ELSE @,
               !.mappings = save_category_mapping(@, cc.id, CategoryRef(found)),
               !.synced = @ + 1]
       ELSE [st EXCEPT
               !.categories = Append(@, Category(cc.name, is_income,
                                  IF is_income THEN IncomeGroup ELSE DefaultGroup)),
               !.mappings = save_category_mapping(@, cc.id,
                                                  CategoryRef(Len(st.categories) + 1)),
               !.created = @ + 1]

RECURSIVE CategoryLoop(_, _, _)
CategoryLoop(st, cost_centers, snapshot) ==
    IF cost_centers = <<>> THEN st
    ELSE CategoryLoop(CategoryStep(st, Head(cost_centers), snapshot),
                      Tail(cost_centers), snapshot)

\* sync_categories(config, dry_run) on the categories and mapping rows of B
sync_categories_run(B, dry_run) ==
    IF dry_run
    THEN [B EXCEPT !.synced = 0, !.created = 0, !.runs = @ + 1]
    ELSE [CategoryLoop([B EXCEPT !.synced = 0, !.created = 0],
                       B.cost_centers, B.categories)
             EXCEPT !.runs = @ + 1]

InitCategoryChoices ==
    {Category(n, i, g) : n \in CostCentreNames, i \in {FALSE},
                         g \in {DefaultGroup}}
       \cup {Category("Bar-Kollekten", TRUE, IncomeGroup)}

CostCentreLists ==
    {s \in BoundedSeqs({CostCentre(id, n) : id \in CostCentreIds, n \in CostCentreNames},
                       MaxCostCentres) :
        \A i, j \in DOMAIN s : i # j => s[i].id # s[j].id}

InitCategories ==
    /\ IdleRest
    /\ ledger = <<>>
    /\ imp = NoImp
    /\ \E ccs \in CostCentreLists,
          cats \in BoundedSeqs(InitCategoryChoices, MaxInitCategories) :
          probe = [kind |-> "categories", cost_centers |-> ccs, categories |-> cats,
                   mappings |-> {}, synced |-> 0, created |-> 0, runs |-> 0]

MaxRuns == 2

RunCategorySync ==
    \E dry_run \in BOOLEAN :
       /\ probe.runs < MaxRuns
       /\ probe' = sync_categories_run(probe, dry_run)
       /\ UNCHANGED <<sevdesk, now, voucher_cache, position_cache,
                      transaction_mappings, failed_vouchers, category_mappings,
                      account_mappings, ledger, imp>>

\* scripts/reset_sync.py: DELETE FROM category_mappings
ClearCategoryMappings ==
    /\ probe.mappings # {}
    /\ probe' = [probe EXCEPT !.mappings = {}]
    /\ UNCHANGED <<sevdesk, now, voucher_cache, position_cache,
                   transaction_mappings, failed_vouchers, category_mappings,
                   account_mappings, ledger, imp>>

NextCategories == RunCategorySync \/ ClearCategoryMappings

SpecCategories == InitCategories /\ [][NextCategories]_vars

(***************************************************************************)
(* Properties                                                              *)
(***************************************************************************)
\* external ids carried by the non-deleted transactions of an account
LiveIds(ldg, account_id) ==
    {ldg[i].financial_id : i \in {j \in DOMAIN ldg :
        ldg[j].acct = account_id /\ ~ldg[j].tombstone}} \ {NoId}

Completes(R) == R.outcome \in {"completed", "no_work", "nothing"}

\* C1 (idempotence): when a non-dry-run sync completes and the same sync is
\* run again with nothing changed on either side, the second run creates no
\* ledger transaction and creates or changes no mapping row.
C1_Idempotence ==
    \A full_sync \in BOOLEAN, pick1 \in Picks :
       \A R1 \in {sync_vouchers(State, full_sync, FALSE, "none", {}, pick1)} :
          Completes(R1) =>
             \A pick2 \in Picks :
                \A R2 \in {sync_vouchers(R1, full_sync, FALSE, "none", {}, pick2)} :
                   /\ Len(R2.ledger) = Len(R1.ledger)
                   /\ R2.mappings = R1.mappings

NonIgnoredRows(v) ==
    {m \in transaction_mappings : VoucherOf(m.sevdesk_id) = v /\ ~m.ignored}

\* C2 (at most one mapping): after any sequence of sync_vouchers,
\* sync_from_cache, reconciliation and reset, every source document has at
\* most one non-ignored mapping row.
C2_AtMostOneMapping ==
    \A v \in Vouchers : Cardinality(NonIgnoredRows(v)) <= 1

\* the loop state of the recorded import before and after its i-th candidate
BeforeCandidate(i) ==
    ImportLoop([ledger |-> imp.pre,
                existing |-> ExistingImportedIds(imp.pre, TargetAccount, imp.cands),
                added |-> <<>>, updated |-> <<>>, skipped |-> <<>>],
               SubSeq(imp.cands, 1, i - 1), TargetAccount, imp.pick)

AfterCandidate(i) ==
    ImportStep(BeforeCandidate(i), imp.cands[i], TargetAccount, imp.pick)

Occurrences(seq, x) == Cardinality({i \in DOMAIN seq : seq[i] = x})

CandidateIds == [i \in DOMAIN imp.cands |-> imp.cands[i].imported_id]

\* C3 (dedup by external id): a candidate whose external id is already
\* carried by a non-deleted transaction of the target account creates no
\* transaction, modifies no transaction and is reported in 'skipped'.
C3_DedupByExternalId ==
    imp.done =>
       \A i \in DOMAIN imp.cands :
          imp.cands[i].imported_id \in LiveIds(imp.pre, TargetAccount) =>
             \A b \in {BeforeCandidate(i)}, a \in {AfterCandidate(i)} :
                /\ a.ledger = b.ledger
                /\ a.added = b.added
                /\ a.updated = b.updated
                /\ a.skipped = Append(b.skipped, imp.cands[i].imported_id)
                /\ Occurrences(imp.result.skipped, imp.cands[i].imported_id)
                      = Occurrences(CandidateIds, imp.cands[i].imported_id)
                /\ Len(imp.result.added) + Len(imp.result.updated)
                      + Len(imp.result.skipped) = Len(imp.cands)

\* a batch in which one candidate is skipped as a duplicate and another one
\* is imported
C3_Witness ==
    /\ imp.done
    /\ \E i \in DOMAIN imp.cands :
          /\ imp.cands[i].imported_id \in LiveIds(imp.pre, TargetAccount)
          /\ imp.cands[i].imported_id \in SeqSet(imp.result.skipped)
    /\ Len(imp.result.added) + Len(imp.result.updated) > 0

\* the calendar day of a stored date integer
DayOf(dateInt) ==
    IF dateInt <= 20250131 THEN dateInt - 20250100 ELSE dateInt - 20250200 + 31

Distance(a, b) == IF a >= b THEN a - b ELSE b - a

\* non-deleted transactions of the target account with the candidate's
\* amount, a date within 3 days and no external id
Unclaimed(ldg, cand) ==
    {j \in DOMAIN ldg :
        /\ ldg[j].acct = TargetAccount
        /\ ~ldg[j].tombstone
        /\ ldg[j].amount = cand.amount
        /\ Distance(DayOf(ldg[j].date), cand.date) <= DateWindowDays
        /\ ldg[j].financial_id = NoId}

\* C4 (dedup by fuzzy match): for a candidate whose external id is not
\* present, if a non-deleted transaction of the target account has the same
\* amount, a date within 3 days and no external id, the import attaches the
\* candidate's external id to that transaction, reports it in 'updated' and
\* creates no new transaction.
C4_DedupByFuzzyMatch ==
    imp.done =>
       \A i \in DOMAIN imp.cands :
          \A b \in {BeforeCandidate(i)}, a \in {AfterCandidate(i)} :
             (/\ imp.cands[i].imported_id \notin LiveIds(b.ledger, TargetAccount)
              /\ imp.cands[i].imported_id \notin b.existing
              /\ Unclaimed(b.ledger, imp.cands[i]) # {})
             => /\ Len(a.ledger) = Len(b.ledger)
                /\ \E j \in Unclaimed(b.ledger, imp.cands[i]) :
                      /\ a.ledger[j].financial_id = imp.cands[i].imported_id
                      /\ a.updated = Append(b.updated, j)

C6_NeverRepresentedAndIgnored ==
    \A v \in Vouchers :
       ~(/\ \E m \in transaction_mappings : VoucherOf(m.sevdesk_id) = v /\ m.ignored
         /\ ImportedId(v) \in LiveIds(ledger, TargetAccount))

\* C7 (no dangling mapping): the ledgerTransactionId of every non-ignored
\* mapping row names a transaction that exists in the ledger.
C7_NoDanglingMapping ==
    \A m \in transaction_mappings :
       ~m.ignored => m.actual_id[1] = "txn" /\ m.actual_id[2] \in DOMAIN ledger

\* the steps at which a run can die between the cache upsert and the mappings
InterruptionPoints == {"positions", "ledger", "mappings"}

\* C8 (recovery after interruption): when a run is interrupted after the
\* cache upsert and before the mappings are persisted, the next incremental
\* run selects and classifies every valid document of the interrupted run
\* that lacks a mapping.
C8_RecoveryAfterInterruption ==
    \A full_sync \in BOOLEAN, fail \in InterruptionPoints :
       \A R1 \in {sync_vouchers(State, full_sync, FALSE, fail, {}, "lo")} :
          R1.outcome = "failed" =>
             \A R2 \in {sync_vouchers(R1, FALSE, FALSE, "none", {}, "lo")} :
                \A v \in R1.selected :
                   (/\ Classify(sevdesk[v], sevdesk[v].positions, category_mappings)
                          = "valid"
                    /\ get_transaction_mapping(R1.mappings, VoucherKey(v)) = {})
                   => /\ v \in R2.selected
                      /\ R2.cache[v].is_valid = "1"

\* C9 (delta completeness for dirty documents): a cached document marked
\* edited is selected and classified by the next incremental sync even though
\* its update timestamp is unchanged.
C9_DeltaCompletenessDirty ==
    \A v \in Vouchers :
       (voucher_cache[v].cached /\ voucher_cache[v].edited /\ sevdesk[v].exists) =>
          \A R \in {sync_vouchers(State, FALSE, FALSE, "none", {}, "lo")} :
             /\ v \in R.selected
             /\ R.cache[v].is_valid # NullFlag

\* C10 (classifier precedence, no positions): a document with zero positions
\* is always classified Invalid, by either validator and by the sync run.
C10_NoPositionsInvalid ==
    (probe.done /\ Len(probe.positions) = 0) =>
       /\ ~probe.result.is_valid
       /\ probe.result.reason = "no_positions"
       /\ probe.class = "invalid"

\* a voucher without positions whose cost centre is mapped has been classified
C10_Witness ==
    /\ probe.done
    /\ probe.kind = "voucher"
    /\ Len(probe.positions) = 0
    /\ probe.doc.costCentre \in probe.mapped
    /\ ~probe.result.is_valid

\* the voucher is classified by a run: it has no mapping, or a mapping with an
\* older update timestamp
Reclassified(rows, voucher, v) ==
    \A m \in get_transaction_mapping(rows, VoucherKey(v)) : WasModified(voucher, m)

\* C11 (classifier precedence, transfer with cost centre): a voucher with a
\* position of accounting type 40 or 81 and a document-level cost centre that
\* a non-dry-run sync classifies is recorded invalid (validity 0 and a failed
\* voucher row) and is not marked ignored.
C11_TransferWithCostCentreInvalid ==
    \A full_sync \in BOOLEAN :
       \A R \in {sync_vouchers(State, full_sync, FALSE, "none", {}, "lo")} :
          \A v \in R.selected :
             (/\ HasType(sevdesk[v].positions, GeldtransitTypeIds)
              /\ HasCostCentre(sevdesk[v])
              /\ Reclassified(transaction_mappings, sevdesk[v], v))
             => /\ v \in R.failed
                /\ R.cache[v].is_valid = "0"
                /\ ~is_voucher_ignored(R.mappings, VoucherKey(v))

\* C12 (reclassification does not retract): when an already-mapped voucher is
\* selected with a newer update timestamp and is now classified invalid, the
\* run records a failed voucher and validity 0 and leaves the mapping row and
\* the ledger transaction it names unchanged.
C12_ReclassificationKeepsMapping ==
    \A full_sync \in BOOLEAN, pick \in Picks :
       \A R \in {sync_vouchers(State, full_sync, FALSE, "none", {}, pick)} :
          \A v \in R.selected :
             \A m \in get_transaction_mapping(transaction_mappings, VoucherKey(v)) :
                (/\ ~m.ignored
                 /\ WasModified(sevdesk[v], m)
                 /\ Classify(sevdesk[v], sevdesk[v].positions, category_mappings)
                       \in {"invalid", "invalid_pass_through"})
                => /\ v \in R.failed
                   /\ R.cache[v].is_valid = "0"
                   /\ m \in R.mappings
                   /\ m.actual_id[2] \in DOMAIN ledger
                         => R.ledger[m.actual_id[2]] = ledger[m.actual_id[2]]

\* booked vouchers whose mapping row (under the key sync_vouchers uses) is as
\* recent as the voucher
MappedVouchers(S) ==
    {v \in Vouchers :
        /\ S.sevdesk[v].exists /\ S.sevdesk[v].status = BookedStatus
        /\ \E m \in get_transaction_mapping(S.mappings, VoucherKey(v)) :
              ~WasModified(S.sevdesk[v], m)}

\* C13 (second-run statistics): after a completed run that imported at least
\* one voucher, a second run of the same kind with nothing changed returns
\* synced = 0 and skipped = the number of vouchers whose mapping is up to date.
C13_SecondRunStatistics ==
    \A full_sync \in BOOLEAN, pick \in Picks :
       \A R1 \in {sync_vouchers(State, full_sync, FALSE, "none", {}, pick)} :
          (R1.outcome = "completed" /\ R1.stats.synced > 0) =>
             \A R2 \in {sync_vouchers(R1, full_sync, FALSE, "none", {}, pick)} :
                /\ R2.stats.returned
                /\ R2.stats.synced = 0
                /\ R2.stats.skipped = Cardinality(MappedVouchers(R1))

\* C14 (dry-run sync does not mutate state): a run with dry_run = True leaves
\* the voucher cache (validity and edited flags included), the position
\* cache, the mappings, the failed vouchers and the ledger as they were.
C14_DryRunSyncMutatesNothing ==
    \A full_sync \in BOOLEAN :
       \A R \in {sync_vouchers(State, full_sync, TRUE, "none", {}, "lo")} :
          /\ R.cache = voucher_cache
          /\ R.pcache = position_cache
          /\ R.mappings = transaction_mappings
          /\ R.failed = failed_vouchers
          /\ R.ledger = ledger

\* C15 (dry-run reconciliation deletes nothing): in dry-run mode the
\* reconciliation deletes no ledger transaction and no mapping row, whatever
\* the not-found and not-booked buckets contain.
C15_DryRunReconcileDeletesNothing ==
    \A status_errors \in SUBSET {1}, delete_errors \in SUBSET {1} :
       \A R \in {reconcile_transactions(State, TRUE, status_errors, delete_errors)} :
          /\ R.ledger = ledger
          /\ R.mappings = transaction_mappings

\* a mapped voucher is no longer booked, its transaction is live, and a
\* reconciliation that is not a dry run would delete both
C15_Witness ==
    /\ \E m \in ToRemove(transaction_mappings, sevdesk, {}) :
          /\ m.actual_id[1] = "txn"
          /\ m.actual_id[2] \in DOMAIN ledger
          /\ ~ledger[m.actual_id[2]].tombstone
    /\ reconcile_transactions(State, TRUE, {}, {}).mappings = transaction_mappings
    /\ reconcile_transactions(State, FALSE, {}, {}).mappings # transaction_mappings
    /\ reconcile_transactions(State, FALSE, {}, {}).ledger # ledger

\* C16 (import error isolation): when the create or update of one candidate
\* of a batch fails, every other candidate is still attempted and its outcome
\* is recorded in added, updated or skipped.
C16_ImportErrorIsolation ==
    (imp.done /\ imp.bad # 0) =>
       /\ imp.attempted = Len(imp.cands)
       /\ Len(imp.result.added) + Len(imp.result.updated) + Len(imp.result.skipped)
             = Len(imp.cands) - 1

\* the whole-phase remote operations of a run that can fail after the run
\* record was opened
PhaseFailures == {"positions", "ledger"}

\* C17 (run-level failure is recorded): when a whole-phase remote operation
\* of a run fails, the run's sync_history row ends with status 'failed'; it
\* is not left 'running' and not reported 'completed'.
C17_RunFailureRecorded ==
    \A full_sync \in BOOLEAN, fail \in PhaseFailures :
       \A R \in {sync_vouchers(State, full_sync, FALSE, fail, {}, "lo")} :
          R.outcome = "failed" => R.run_status = "failed"

\* C18 (invalid documents are always retried): a cached document marked
\* invalid is selected by every incremental run, a dry run included, and
\* stays in the invalid set unless that run classifies it valid or ignorable.
C18_InvalidAlwaysRetried ==
    \A v \in Vouchers :
       (/\ voucher_cache[v].cached /\ voucher_cache[v].is_valid = "0"
        /\ sevdesk[v].exists) =>
          \A dry_run \in BOOLEAN :
             \A R \in {sync_vouchers(State, FALSE, dry_run, "none", {}, "lo")} :
                /\ v \in R.selected
                /\ \/ R.cache[v].is_valid = "0"
                   \/ /\ ~dry_run
                      /\ Classify(sevdesk[v], sevdesk[v].positions, category_mappings)
                            \in {"valid", "ignored"}

\* live transactions of the account that carry a sevdesk_voucher_ external id
ImportedTxns(ldg, account_id) ==
    {i \in DOMAIN ldg :
        /\ ldg[i].acct = account_id /\ ~ldg[i].tombstone
        /\ ldg[i].financial_id # NoId}

\* C19 (no orphaned or missing ledger entries): after every completed
\* non-dry-run voucher sync the number of non-ignored mapping rows equals the
\* number of live transactions of the account with a sevdesk_voucher_ id.
C19_MappingsMatchLedger ==
    \A full_sync \in BOOLEAN, pick \in Picks :
       \A R \in {sync_vouchers(State, full_sync, FALSE, "none", {}, pick)} :
          R.outcome = "completed" =>
             Cardinality({m \in R.mappings : ~m.ignored})
                = Cardinality(ImportedTxns(R.ledger, TargetAccount))

\* no external id is carried by two live transactions of the account
NoDuplicateIds(ldg, account_id) ==
    \A i, j \in ImportedTxns(ldg, account_id) :
       ldg[i].financial_id = ldg[j].financial_id => i = j

\* C20 (no duplicate external ids): import_transactions never makes two live
\* transactions of the target account carry the same external id; a ledger
\* without such duplicates has none after any sequence of calls.
C20_NoDuplicateExternalIds ==
    (imp.done /\ NoDuplicateIds(imp.pre, TargetAccount))
       => NoDuplicateIds(ledger, TargetAccount)

\* a call on a duplicate-free ledger that was handed an id already present
\* together with a candidate it had to create or attach
C20_Witness ==
    /\ imp.done
    /\ NoDuplicateIds(imp.pre, TargetAccount)
    /\ ImportedTxns(imp.pre, TargetAccount) # {}
    /\ Len(imp.result.skipped) > 0
    /\ Len(imp.result.added) > 0
    /\ Cardinality(ImportedTxns(ledger, TargetAccount)) >= 2

\* C21 (fuzzy match only takes unclaimed transactions): no step of an import
\* changes the external id of a transaction that already carries one; the
\* amount/date match only ever attaches an id to a transaction without one.
C21_FuzzyMatchOnlyUnclaimed ==
    imp.done =>
       \A i \in DOMAIN imp.cands :
          \A b \in {BeforeCandidate(i)}, a \in {AfterCandidate(i)} :
             \A j \in DOMAIN b.ledger :
                b.ledger[j].financial_id # NoId =>
                   a.ledger[j].financial_id = b.ledger[j].financial_id

\* a voucher probe with a pass-through position and no transfer position
PassThroughProbe ==
    /\ probe.kind = "voucher"
    /\ probe.done
    /\ HasType(probe.positions, NoCostCenterTypeIds)
    /\ ~HasType(probe.positions, GeldtransitTypeIds)

\* C22 (pass-through without cost centre): a voucher with a type-39
\* position, no transfer position and no document-level cost centre is
\* classified valid by the sync.
C22_PassThroughWithoutCostCentreValid ==
    (PassThroughProbe /\ ~HasCostCentre(probe.doc)) => probe.class = "valid"

\* C23 (pass-through with cost centre): a voucher with a type-39 position
\* and a document-level cost centre is valid only if that cost centre is in
\* the category mapping table, both for the validator and for the sync.
C23_PassThroughWithCostCentreRegular ==
    (PassThroughProbe /\ HasCostCentre(probe.doc)) =>
       /\ probe.result.is_valid => probe.doc.costCentre \in probe.mapped
       /\ probe.class = "valid" => probe.doc.costCentre \in probe.mapped

\* a probed document that falls under the regular rule: at least one
\* position and, for a voucher, no transfer and no pass-through position
RegularProbe ==
    /\ probe.done
    /\ Len(probe.positions) > 0
    /\ probe.kind = "voucher" =>
          /\ ~HasType(probe.positions, GeldtransitTypeIds)
          /\ ~HasType(probe.positions, NoCostCenterTypeIds)

\* the cost centres a document resolves to: the document-level one if
\* present, else the ones its line items carry (only invoice positions
\* carry a cost centre)
ResolvableCostCentres ==
    IF HasCostCentre(probe.doc) THEN {probe.doc.costCentre}
    ELSE IF probe.kind = "invoice" THEN PositionCostCentres(probe.positions)
    ELSE {}

TransferProbe ==
    /\ probe.kind = "voucher"
    /\ probe.done
    /\ HasType(probe.positions, GeldtransitTypeIds)

\* C25 (transfer rule): validate_voucher returns valid for a voucher with a
\* position of type 40 or 81 if and only if the voucher has no cost centre
\* and 1 or 2 positions; otherwise the result is invalid and its reason
\* names the cost centre or the position count.
C25_TransferRule ==
    TransferProbe =>
       /\ probe.result.is_valid <=>
             /\ ~HasCostCentre(probe.doc)
             /\ Len(probe.positions) \in {1, 2}
       /\ probe.result.voucher_type = "geldtransit"
       /\ (~probe.result.is_valid /\ HasCostCentre(probe.doc)) =>
             probe.result.reason = "geldtransit_has_cost_center"
       /\ (~probe.result.is_valid /\ ~HasCostCentre(probe.doc)) =>
             probe.result.reason = "geldtransit_position_count"

\* a transfer voucher without cost centre rejected for having 3 positions
C25_Witness ==
    /\ TransferProbe
    /\ ~HasCostCentre(probe.doc)
    /\ Len(probe.positions) = 3
    /\ ~probe.result.is_valid
    /\ probe.result.reason = "geldtransit_position_count"

\* booked source documents whose update timestamp exceeds every cached one
UpdatedSinceCache ==
    {v \in Vouchers :
        /\ sevdesk[v].exists
        /\ sevdesk[v].status = BookedStatus
        /\ \A w \in Vouchers :
              voucher_cache[w].cached =>
                 sevdesk[v].update > voucher_cache[w].update_timestamp}

\* documents marked invalid in the cache that the source returns when asked
InvalidStillReturned(fetch_errors) ==
    {v \in Vouchers :
        /\ voucher_cache[v].cached
        /\ voucher_cache[v].is_valid = "0"
        /\ sevdesk[v].exists
        /\ v \notin fetch_errors}

RECURSIVE Dedup(_)
Dedup(seq) ==
    IF seq = <<>> THEN <<>>
    ELSE <<Head(seq)>> \o Dedup(SelectSeq(Tail(seq), LAMBDA x : x # Head(seq)))

\* the selection of an incremental run from the current state
IncrementalSelection == SelectVouchers(sevdesk, voucher_cache, FALSE, {})

\* C27 (duplicates in the selection are immaterial): when an incremental run
\* selects a document both as updated and as invalid, what the run persists
\* (ledger, mappings, cache, failed vouchers and their retry increments) and
\* the statistics it reports are the same as when the document is selected
\* once.
C27_DuplicateSelectionImmaterial ==
    (has_cache(voucher_cache) /\ Dedup(IncrementalSelection) # IncrementalSelection) =>
       \A R \in {SyncSelected(State, IncrementalSelection, FALSE, "none", "lo")},
          Q \in {SyncSelected(State, Dedup(IncrementalSelection), FALSE, "none", "lo")} :
          /\ R.ledger = Q.ledger
          /\ R.mappings = Q.mappings
          /\ R.cache = Q.cache
          /\ R.failed = Q.failed
          /\ R.failed_saves = Q.failed_saves
          /\ R.stats = Q.stats
          /\ R.failed_count = Q.failed_count
          /\ R.items_processed = Q.items_processed

\* C28 (reconciler input): reconciliation looks at non-ignored mapping rows
\* only: an ignored row is never among the rows to remove and is still in
\* the table after a reconciliation run.
C28_ReconcilerSkipsIgnored ==
    \A status_errors \in SUBSET {VoucherOf(m.sevdesk_id) : m \in transaction_mappings} :
       \A to_remove \in {ToRemove(transaction_mappings, sevdesk, status_errors)},
          R \in {reconcile_transactions(State, FALSE, status_errors, {})} :
          \A m \in transaction_mappings :
             m.ignored => (m \notin to_remove /\ m \in R.mappings)

\* the ledger holds no live transaction under the mapping's actual_id, so
\* delete_transaction returns False for it
AlreadyGone(m) ==
    \A i \in DOMAIN ledger : m.actual_id = TxnRef(i) => ledger[i].tombstone

\* C29 (already-gone is success): when the transaction of a mapping to be
\* removed is already absent or deleted, reconciliation still deletes the
\* mapping row and counts no error for it: the errors reported are exactly
\* the status checks and deletes that raised.
C29_AlreadyGoneIsSuccess ==
    \A status_errors \in SUBSET {VoucherOf(m.sevdesk_id) : m \in transaction_mappings} :
       \A to_remove \in {ToRemove(transaction_mappings, sevdesk, status_errors)} :
          \A delete_errors \in SUBSET {VoucherOf(m.sevdesk_id) : m \in to_remove} :
             \A R \in {reconcile_transactions(State, FALSE, status_errors, delete_errors)} :
                (\E m \in to_remove :
                    AlreadyGone(m) /\ VoucherOf(m.sevdesk_id) \notin delete_errors) =>
                   /\ \A m \in to_remove :
                         (AlreadyGone(m) /\ VoucherOf(m.sevdesk_id) \notin delete_errors)
                            => m \notin R.mappings
                   /\ R.reconcile.errors =
                         Cardinality({m \in transaction_mappings :
                                         VoucherOf(m.sevdesk_id) \in status_errors})
                         + Cardinality({m \in to_remove :
                                           VoucherOf(m.sevdesk_id) \in delete_errors})
                   /\ R.reconcile.deleted =
                         Cardinality({i \in DOMAIN ledger :
                                         ledger[i].tombstone # R.ledger[i].tombstone})

\* a non-ignored mapping of an unbooked or deleted voucher that names no live
\* transaction: reconciliation removes the row and reports no error
C29_Witness ==
    \E m \in ToRemove(transaction_mappings, sevdesk, {}) :
       /\ ~m.ignored
       /\ AlreadyGone(m)
       /\ m \notin reconcile_transactions(State, FALSE, {}, {}).mappings
       /\ reconcile_transactions(State, FALSE, {}, {}).reconcile.errors = 0

\* the non-ignored mapping rows of voucher v that are older than the voucher
StaleRows(v) ==
    {m \in NonIgnoredRows(v) : sevdesk[v].update > m.sevdesk_update_timestamp}

\* C30 (update routing): when a run processes a valid document that has a
\* mapping older than the document's update timestamp, the mapped ledger
\* transaction is updated in place (date, amount, category), no new
\* transaction is created for the document, and the mapping's stored
\* timestamp becomes the document's current update timestamp.
C30_UpdateRouting ==
    \A full_sync \in BOOLEAN, pick \in Picks :
       \A R \in {sync_vouchers(State, full_sync, FALSE, "none", {}, pick)} :
          \A v \in R.selected :
             \A m \in StaleRows(v) :
                Classify(sevdesk[v], sevdesk[v].positions, category_mappings) = "valid" =>
                   /\ Len(R.ledger) = Len(ledger)
                         + Cardinality({w \in R.selected \ {v} :
                               \E i \in DOMAIN R.ledger \ DOMAIN ledger :
                                  R.ledger[i].financial_id = ImportedId(w)})
                   /\ \A i \in DOMAIN ledger :
                         (m.actual_id = TxnRef(i) /\ ~ledger[i].tombstone) =>
                            /\ R.ledger[i].date = DateInt(sevdesk[v].voucherDate)
                            /\ R.ledger[i].amount = AmountCents(sevdesk[v])
                            /\ R.ledger[i].category =
                                  CategoryFor(sevdesk[v], category_mappings)
                   /\ \E n \in R.mappings :
                         /\ n.sevdesk_id = m.sevdesk_id
                         /\ n.actual_id = m.actual_id
                         /\ n.sevdesk_update_timestamp = sevdesk[v].update

\* the import loop of a run, replayed up to and including its i-th candidate
RunBefore(S, cands, i, pick) ==
    ImportLoop([ledger |-> S.ledger,
                existing |-> ExistingImportedIds(S.ledger, TargetAccount, cands),
                added |-> <<>>, updated |-> <<>>, skipped |-> <<>>],
               SubSeq(cands, 1, i - 1), TargetAccount, pick)

\* the transaction under which the step from b to a reported its candidate
\* ('added' or 'updated'), or 0 when the candidate was skipped
ReportedTxn(b, a) ==
    IF Len(a.added) > Len(b.added) THEN a.added[Len(a.added)]
    ELSE IF Len(a.updated) > Len(b.updated) THEN a.updated[Len(a.updated)]
    ELSE 0

\* C31 (every successful import gets a mapping): after a non-dry run that
\* returns normally, every candidate that import_transactions reported as
\* added or updated has a non-ignored mapping row from its voucher to the
\* transaction it was reported under.
C31_ImportedHasMapping ==
    \A full_sync \in BOOLEAN, pick \in Picks :
       \A R \in {sync_vouchers(State, full_sync, FALSE, "none", {}, pick)} :
          \A cands \in {Candidates(R.valid_vouchers, sevdesk, category_mappings)} :
             R.outcome = "completed" =>
                \A i \in DOMAIN cands :
                   \A b \in {RunBefore(State, cands, i, pick)} :
                      \A t \in {ReportedTxn(b, ImportStep(b, cands[i], TargetAccount, pick))} :
                         t # 0 =>
                            \E m \in R.mappings :
                               /\ ~m.ignored
                               /\ VoucherOf(m.sevdesk_id) = R.valid_vouchers[i]
                               /\ m.actual_id = TxnRef(t)

\* C32 (SyncRun lifecycle): a run of sync_vouchers that creates a
\* sync_history record and returns normally has closed that record (status
\* completed or dry_run) by the time it returns; none is left 'running'.
C32_SyncRunClosed ==
    \A full_sync \in BOOLEAN, dry_run \in BOOLEAN, pick \in Picks :
       \A R \in {sync_vouchers(State, full_sync, dry_run, "none", {}, pick)} :
          (R.stats.returned /\ R.run_status # "none") =>
             R.run_status \in {"completed", "dry_run"}

\* C33 (per-item remote errors do not stop the run): a remote error while
\* re-fetching one invalid voucher, while fetching one voucher's positions
\* or while checking one mapping's status leaves the run going: it returns
\* its statistics, and reconciliation counts the item in 'errors' and still
\* removes the other orphans.
C33_PerItemErrorsContinue ==
    /\ \A full_sync \in BOOLEAN, dry_run \in BOOLEAN,
          fetch_errors \in SUBSET get_invalid_voucher_ids(voucher_cache) :
          \A R \in {sync_vouchers(State, full_sync, dry_run, "none", fetch_errors, "lo")} :
             R.stats.returned
    /\ \A full_sync \in BOOLEAN, dry_run \in BOOLEAN :
          \A R \in {sync_vouchers(State, full_sync, dry_run, "positions", {}, "lo")} :
             R.stats.returned /\ R.outcome # "failed"
    /\ \A status_errors \in SUBSET {VoucherOf(m.sevdesk_id) : m \in transaction_mappings} :
          \A R \in {reconcile_transactions(State, FALSE, status_errors, {})} :
             /\ R.outcome = "completed"
             /\ R.reconcile.errors >= Cardinality(StatusErrors(transaction_mappings,
                                                               status_errors))
             /\ \A m \in ToRemove(transaction_mappings, sevdesk, status_errors) :
                   m \notin R.mappings

\* C34 (positions are replaced wholesale): after a run has refreshed a
\* document, the cached positions of that document are exactly the positions
\* the source returned for it.
C34_PositionsReplacedWholesale ==
    \A full_sync \in BOOLEAN :
       \A R \in {sync_vouchers(State, full_sync, FALSE, "none", {}, "lo")} :
          \A v \in R.selected : R.pcache[v] = sevdesk[v].positions

\* C35 (mappings are injective): two different source documents never have
\* non-ignored mapping rows that point to the same ledger transaction.
C35_MappingsInjective ==
    \A m, n \in transaction_mappings :
       (/\ ~m.ignored /\ ~n.ignored
        /\ VoucherOf(m.sevdesk_id) # VoucherOf(n.sevdesk_id)
        /\ \E i \in DOMAIN ledger : m.actual_id = TxnRef(i))
       => m.actual_id # n.actual_id

\* mappings whose voucher the source reports as booked, or whose status
\* check raised, in a reconciliation pass
Healthy(status_errors) ==
    {m \in transaction_mappings :
        \/ VoucherOf(m.sevdesk_id) \in status_errors
        \/ /\ sevdesk[VoucherOf(m.sevdesk_id)].exists
           /\ sevdesk[VoucherOf(m.sevdesk_id)].status = BookedStatus}

\* C36 (reconciliation leaves healthy documents alone): a non-dry
\* reconciliation leaves unchanged every mapping row, and the ledger
\* transaction it points to, whose voucher is still booked or whose status
\* check raised.
C36_ReconcileLeavesHealthy ==
    \A status_errors \in SUBSET {VoucherOf(m.sevdesk_id) : m \in transaction_mappings} :
       \A to_remove \in {ToRemove(transaction_mappings, sevdesk, status_errors)} :
          \A delete_errors \in SUBSET {VoucherOf(m.sevdesk_id) : m \in to_remove} :
             \A R \in {reconcile_transactions(State, FALSE, status_errors, delete_errors)} :
                \A m \in Healthy(status_errors) :
                   /\ m \in R.mappings
                   /\ \A i \in DOMAIN ledger :
                         m.actual_id = TxnRef(i) => R.ledger[i] = ledger[i]

\* the vouchers that have an ignored mapping row
IgnoredVouchers ==
    {v \in Vouchers : is_voucher_ignored(transaction_mappings, VoucherKey(v))}

\* C37 (ignored is absorbing): a sync_vouchers run, incremental or full, leaves
\* the ignored mapping row of a voucher as it is and neither validates nor
\* imports that voucher, whatever its positions and update timestamp are at
\* the source.
C37_IgnoredIsAbsorbing ==
    \A full_sync \in BOOLEAN, dry_run \in BOOLEAN, fail \in FailPoints,
       fetch_errors \in SUBSET get_invalid_voucher_ids(voucher_cache), pick \in Picks :
       \A R \in {sync_vouchers(State, full_sync, dry_run, fail, fetch_errors, pick)} :
          \A v \in IgnoredVouchers :
             /\ get_transaction_mapping(R.mappings, VoucherKey(v))
                   = get_transaction_mapping(transaction_mappings, VoucherKey(v))
             /\ v \notin SeqSet(R.valid_vouchers)
             /\ \A i \in DOMAIN R.modified_vouchers : R.modified_vouchers[i][1] # v
             /\ v \notin SeqSet(R.failed_saves)
             /\ \A i \in DOMAIN R.ledger :
                   R.ledger[i].financial_id = ImportedId(v)
                      => i \in DOMAIN ledger /\ R.ledger[i] = ledger[i]

\* an ignored voucher was edited at the source after it was ignored and would
\* now pass validation, and a full run selects it
C37_Witness ==
    \E v \in IgnoredVouchers :
       /\ sevdesk[v].exists /\ sevdesk[v].status = BookedStatus
       /\ sevdesk[v].update > voucher_cache[v].update_timestamp
       /\ voucher_cache[v].cached
       /\ Classify(sevdesk[v], sevdesk[v].positions, category_mappings) = "valid"
       /\ v \in SeqSet(SelectVouchers(sevdesk, voucher_cache, TRUE, {}))

\* C38 (statistics account for every document): when a sync_vouchers run over
\* a non-empty selection returns its statistics, skipped + ignored + failed +
\* validated equals the number of selected vouchers.
C38_StatisticsAccountForAll ==
    \A full_sync \in BOOLEAN, dry_run \in BOOLEAN, fail \in FailPoints,
       fetch_errors \in SUBSET get_invalid_voucher_ids(voucher_cache), pick \in Picks :
       \A vouchers \in {SelectVouchers(sevdesk, voucher_cache, full_sync, fetch_errors)} :
          \A R \in {SyncSelected(State, vouchers, dry_run, fail, pick)} :
             (vouchers # <<>> /\ R.stats.returned)
                => R.stats.skipped + R.ignored_count + R.failed_count + R.validated
                      = Len(vouchers)

Disposition(R, v) ==
    IF is_voucher_ignored(R.mappings, VoucherKey(v)) THEN "ignore"
    ELSE IF R.cache[v].is_valid = "1" THEN "import"
    ELSE IF R.cache[v].is_valid = "0" THEN "invalid"
    ELSE "none"

\* the cache holds voucher v as the source has it, the voucher is booked, has
\* no mapping row yet, and the source cost centres are mapped
CacheAgreesWithSource(v) ==
    /\ sevdesk[v].exists /\ sevdesk[v].status = BookedStatus
    /\ voucher_cache[v].cached
    /\ voucher_cache[v].voucher_data = [sevdesk[v] EXCEPT !.positions = <<>>]
    /\ position_cache[v] = sevdesk[v].positions
    /\ \A m \in transaction_mappings : VoucherOf(m.sevdesk_id) # v
    /\ SourceCostCentres \subseteq category_mappings
    /\ account_mappings # {}

\* C40 (cache re-sync agrees with the normal sync): on the same cached
\* vouchers, positions and cost-centre mappings, sync_from_cache gives a
\* voucher the same disposition (import, ignore, invalid) as a full
\* sync_vouchers run.
C40_CacheSyncAgrees ==
    \A v \in Vouchers :
       CacheAgreesWithSource(v) =>
          \A RF \in {sync_vouchers(State, TRUE, FALSE, "none", {}, "lo")} :
             \A RC \in {sync_from_cache(State, "lo")} :
                Disposition(RC, v) = Disposition(RF, v)

=============================================================================
